---------------------------- MODULE Spec2Model ----------------------------
(***************************************************************************)
(* Model of the JSON-RPC client of src/blockchain/client.go: the hex       *)
(* integer codec (strconv.FormatUint / strconv.ParseUint behind the "0x"   *)
(* prefix checks), the decoding of the response envelope and of the Block  *)
(* shape by encoding/json, and the per-call control flow of rpcCall,       *)
(* GetBlockNumber and GetBlockByNumber.                                    *)
(*                                                                         *)
(* Go strings are sequences of symbols: one-character strings for          *)
(* everything the code inspects character by character (hex numbers,       *)
(* hashes), words for the free text of a remote error message.             *)
(*                                                                         *)
(* uint64 is modelled as an unsigned integer of BitSize bits: the          *)
(* arithmetic of ParseUint (cutoff, maxVal, wrap-around) is kept, at a     *)
(* width the model checker can enumerate.                                  *)
(***************************************************************************)
EXTENDS Integers, Sequences, FiniteSets, TLC

\* ------------------------------------------------------------------ bounds

\* Width of the unsigned integer type standing for uint64.
BitSize == 8

\* Longest string of free symbols offered to the decoders.
MaxStrLen == 3

\* Number of callers that may use the client at once.
NumCalls == 2

\* ----------------------------------------------------------- hex codec

RECURSIVE Pow2(_)
Pow2(k) == IF k = 0 THEN 1 ELSE 2 * Pow2(k - 1)

\* maxVal := uint64(1)<<uint(bitSize) - 1
MaxUint == Pow2(BitSize) - 1

Uint == 0 .. MaxUint

LowerDigits == <<"0", "1", "2", "3", "4", "5", "6", "7", "8", "9",
                 "a", "b", "c", "d", "e", "f">>

Letters == <<"a", "b", "c", "d", "e", "f", "g", "h", "i", "j", "k", "l", "m",
             "n", "o", "p", "q", "r", "s", "t", "u", "v", "w", "x", "y", "z">>

UpperLetters == <<"A", "B", "C", "D", "E", "F", "G", "H", "I", "J", "K", "L", "M",
                  "N", "O", "P", "Q", "R", "S", "T", "U", "V", "W", "X", "Y", "Z">>

IndexOf(seq, c) == CHOOSE i \in 1 .. Len(seq) : seq[i] = c

InSeq(seq, c) == \E i \in 1 .. Len(seq) : seq[i] = c

\* lower(c) of strconv: ASCII upper-case letters fold to lower case.
Lower(c) == IF InSeq(UpperLetters, c) THEN Letters[IndexOf(UpperLetters, c)] ELSE c

\* Only lower-case letters taken for digits: the fold to lower case left out.
DigitValueCaseSensitive(c) ==
    IF \E i \in 1 .. 16 : c = LowerDigits[i]
      THEN (CHOOSE i \in 1 .. 16 : c = LowerDigits[i]) - 1
      ELSE -1

\* The digit value ParseUint gives a byte, or -1 where it reports a syntax
\* error: '0'..'9' -> c - '0', a letter -> lower(c) - 'a' + 10, and the
\* value must be below the base, 16.
DigitValue(c) ==
    LET d == IF InSeq(SubSeq(LowerDigits, 1, 10), c)
               THEN IndexOf(LowerDigits, c) - 1
             ELSE IF InSeq(Letters, Lower(c))
               THEN IndexOf(Letters, Lower(c)) - 1 + 10
             ELSE -1
    IN  IF d >= 16 THEN -1 ELSE d

\* Upper-case digits, as "%X" would print them.
RECURSIVE FormatUintUpper(_)
FormatUintUpper(n) ==
    LET digits == <<"0", "1", "2", "3", "4", "5", "6", "7", "8", "9",
                    "A", "B", "C", "D", "E", "F">>
    IN  IF n < 16 THEN <<digits[n + 1]>>
        ELSE FormatUintUpper(n \div 16) \o <<digits[(n % 16) + 1]>>

\* strconv.FormatUint(n, 16): the digits of n in base 16, most significant
\* first, lower case, no leading zero, "0" for zero.
RECURSIVE FormatUint(_)
FormatUint(n) ==
    IF n < 16 THEN <<LowerDigits[n + 1]>>
    ELSE FormatUint(n \div 16) \o <<LowerDigits[(n % 16) + 1]>>

\* hexNum := "0x" + strconv.FormatUint(number, 16)
EncodeHex(n) == <<"0", "x">> \o FormatUint(n)

ParseOk(v) == [ok |-> TRUE, val |-> v, err |-> "none"]
ParseErr(v, e) == [ok |-> FALSE, val |-> v, err |-> e]

\* The loop of strconv.ParseUint(s, 16, bitSize) from digit i on, n being the
\* value accumulated so far.
RECURSIVE ParseLoop(_, _, _)
ParseLoop(s, i, n) ==
    IF i > Len(s) THEN ParseOk(n)
    ELSE LET d      == DigitValue(s[i])
             cutoff == MaxUint \div 16 + 1
             nb     == (n * 16) % (MaxUint + 1)
             n1     == (nb + d) % (MaxUint + 1)
         IN  IF d < 0 THEN ParseErr(0, "syntax")
             ELSE IF n >= cutoff THEN ParseErr(MaxUint, "range")
             ELSE IF n1 < nb \/ n1 > MaxUint THEN ParseErr(MaxUint, "range")
             ELSE ParseLoop(s, i + 1, n1)

\* strconv.ParseUint(s, 16, 64) as both decoders call it.
ParseUint(s) == IF s = <<>> THEN ParseErr(0, "syntax") ELSE ParseLoop(s, 1, 0)

\* strings.HasPrefix(s, "0x")
HasPrefix0x(s) == Len(s) >= 2 /\ s[1] = "0" /\ s[2] = "x"

\* A slip of the index: hexStr[1:].
Tail2OffByOne(s) == SubSeq(s, 2, Len(s))

\* hexStr[2:]
Tail2(s) == SubSeq(s, 3, Len(s))


\* ------------------------------------------------------------ JSON values

\* A JSON text as encoding/json sees it. Absent stands for a key an object
\* does not have (and for the nil json.RawMessage it leaves behind);
\* Malformed for a body that is not JSON at all.
Absent == [t |-> "absent"]
Malformed == [t |-> "malformed"]
JNull == [t |-> "null"]
JStr(s) == [t |-> "string", s |-> s]
JNum(n) == [t |-> "number", n |-> n]
JBool(b) == [t |-> "bool", b |-> b]
JArr(a) == [t |-> "array", a |-> a]
JObj(f) == [t |-> "object", f |-> f]

\* ------------------------------------------------------ encoding/json decode

\* json.Unmarshal(data, &s) for a Go string s that starts empty: null leaves
\* s alone, a JSON string sets it, anything else is an UnmarshalTypeError,
\* and empty input is "unexpected end of JSON input".
UnmarshalString(data) ==
    CASE data.t = "string" -> [err |-> FALSE, val |-> data.s]
      [] data.t = "null"   -> [err |-> FALSE, val |-> <<>>]
      [] OTHER             -> [err |-> TRUE, val |-> <<>>]

\* json.Unmarshal into an int field (rpcError.Code, rpcResponse.ID).
UnmarshalInt(data) ==
    CASE data.t = "number" -> [err |-> FALSE, val |-> data.n]
      [] data.t \in {"null", "absent"} -> [err |-> FALSE, val |-> 0]
      [] OTHER             -> [err |-> TRUE, val |-> 0]

\* A string field of a struct: a key the object lacks is never visited.
UnmarshalStringField(data) ==
    IF data.t = "absent" THEN [err |-> FALSE, val |-> <<>>] ELSE UnmarshalString(data)

\* The prefix trimmed where there is one, as strings.TrimPrefix would, instead
\* of required.
Uint64HexTrimPrefix(data) ==
    LET str    == UnmarshalString(data)
        hexStr == str.val
        p      == ParseUint(IF HasPrefix0x(hexStr) THEN Tail2(hexStr) ELSE hexStr)
    IN  IF str.err \/ ~p.ok THEN [err |-> TRUE, val |-> 0]
        ELSE [err |-> FALSE, val |-> p.val]

\* func (u *Uint64Hex) UnmarshalJSON(data []byte) error, u starting at 0.
Uint64HexUnmarshalJSON(data) ==
    LET str    == UnmarshalString(data)
        hexStr == str.val
    IN  IF str.err THEN [err |-> TRUE, val |-> 0]
        ELSE IF Len(hexStr) > 1 /\ HasPrefix0x(hexStr)
          THEN LET p == ParseUint(Tail2(hexStr))
               IN  IF ~p.ok THEN [err |-> TRUE, val |-> 0]
                   ELSE [err |-> FALSE, val |-> p.val]
        ELSE [err |-> TRUE, val |-> 0]

\* A Uint64Hex field of a struct: encoding/json calls UnmarshalJSON for every
\* value the key has, null included, and not at all for a key that is absent.
UnmarshalUint64HexField(data) ==
    IF data.t = "absent" THEN [err |-> FALSE, val |-> 0]
    ELSE Uint64HexUnmarshalJSON(data)

ZeroTransaction == [Hash |-> <<>>, From |-> <<>>, To |-> <<>>, Value |-> <<>>]

\* json.Unmarshal into a Transaction (an element of Block.Transactions).
UnmarshalTransaction(data) ==
    CASE data.t = "null" -> [err |-> FALSE, val |-> ZeroTransaction]
      [] data.t = "object" ->
            LET h == UnmarshalStringField(data.f.hash)
                f == UnmarshalStringField(data.f.from)
                o == UnmarshalStringField(data.f.to)
                v == UnmarshalStringField(data.f.value)
            IN  [err |-> h.err \/ f.err \/ o.err \/ v.err,
                 val |-> [Hash |-> h.val, From |-> f.val, To |-> o.val, Value |-> v.val]]
      [] OTHER -> [err |-> TRUE, val |-> ZeroTransaction]

\* json.Unmarshal into the []Transaction field: null and an absent key leave
\* the nil slice, an array decodes element by element.
UnmarshalTransactions(data) ==
    CASE data.t \in {"null", "absent"} -> [err |-> FALSE, val |-> <<>>]
      [] data.t = "array" ->
            [err |-> \E i \in 1 .. Len(data.a) : UnmarshalTransaction(data.a[i]).err,
             val |-> [i \in 1 .. Len(data.a) |-> UnmarshalTransaction(data.a[i]).val]]
      [] OTHER -> [err |-> TRUE, val |-> <<>>]

\* var block Block
ZeroBlock == [Number |-> 0, Hash |-> <<>>, ParentHash |-> <<>>, Timestamp |-> 0,
              Transactions |-> <<>>]

\* json.Unmarshal(rpcResp.Result, &block): fields the object lacks keep their
\* zero value without an error; val is what the decoder had stored when it
\* reported an error (rpcCall's callers drop it then).
UnmarshalBlock(data) ==
    CASE data.t = "null" -> [err |-> FALSE, val |-> ZeroBlock]
      [] data.t = "object" ->
            LET n == UnmarshalUint64HexField(data.f.number)
                h == UnmarshalStringField(data.f.hash)
                p == UnmarshalStringField(data.f.parentHash)
                s == UnmarshalUint64HexField(data.f.timestamp)
                x == UnmarshalTransactions(data.f.transactions)
            IN  [err |-> n.err \/ h.err \/ p.err \/ s.err \/ x.err,
                 val |-> [Number |-> n.val, Hash |-> h.val, ParentHash |-> p.val,
                          Timestamp |-> s.val, Transactions |-> x.val]]
      [] OTHER -> [err |-> TRUE, val |-> ZeroBlock]

\* The *rpcError field: null and an absent key leave the nil pointer.
NilError == [nil |-> TRUE, Code |-> 0, Message |-> <<>>]

UnmarshalRpcError(data) ==
    CASE data.t \in {"null", "absent"} -> [err |-> FALSE, val |-> NilError]
      [] data.t = "object" ->
            LET c == UnmarshalInt(data.f.code)
                m == UnmarshalStringField(data.f.message)
            IN  [err |-> c.err \/ m.err,
                 val |-> [nil |-> FALSE, Code |-> c.val, Message |-> m.val]]
      [] OTHER -> [err |-> TRUE, val |-> NilError]

\* json.Unmarshal(body, &rpcResp): Result keeps the raw text of the "result"
\* key, the literal null included, and stays nil (Absent) without the key.
UnmarshalRpcResponse(body) ==
    CASE body.t = "null" ->
            [err |-> FALSE, Result |-> Absent, Error |-> NilError, ID |-> 0]
      [] body.t = "object" ->
            LET e == UnmarshalRpcError(body.f.error)
                i == UnmarshalInt(body.f.id)
            IN  [err |-> e.err \/ i.err, Result |-> body.f.result,
                 Error |-> e.val, ID |-> i.val]
      [] OTHER -> [err |-> TRUE, Result |-> Absent, Error |-> NilError, ID |-> 0]


\* ------------------------------------------------------------------ errors

\* The Go error values of client.go, one shape per fmt.Errorf site; site is
\* the fixed text of the format string.
NoError == [site |-> "nil"]
ErrPost(cause) == [site |-> "RPC request error", cause |-> cause]
ErrRead(cause) == [site |-> "failed to read response", cause |-> cause]
ErrStatus(code, body) == [site |-> "unexpected HTTP status", status |-> code, body |-> body]
ErrEnvelope == [site |-> "failed to decode JSON-RPC response"]
\* The remote code replaced by one of the client's own.
ErrRpcRenumbered(code, message) ==
    [site |-> "JSON-RPC error", code |-> -32000, message |-> message]

ErrRpc(code, message) == [site |-> "JSON-RPC error", code |-> code, message |-> message]
ErrResult == [site |-> "failed to decode result"]
ErrFormat(s) == [site |-> "invalid block number format", value |-> s]
ErrParse(cause) == [site |-> "failed to parse block number", cause |-> cause]
ErrNotFound(n) == [site |-> "block not found", number |-> n]

\* err.Error(): the text fmt.Errorf builds, as a sequence of symbols, for the
\* errors whose arguments are numbers and strings (the text of a raw body and
\* of an underlying cause is not spelled out).
ErrorText(e) ==
    CASE e.site = "JSON-RPC error" -> <<e.site, ToString(e.code), ":">> \o e.message
      [] e.site = "block not found" -> <<"block", ToString(e.number), "not", "found">>
      [] e.site = "invalid block number format" -> <<e.site, ":">> \o e.value
      [] OTHER -> <<e.site>>

\* err != nil
IsNil(e) == e.site = "nil"

\* ----------------------------------------------------------------- rpcCall

\* NewClient: the default endpoint replaces an empty one.
NewClient(endpoint) == IF endpoint = "" THEN "https://polygon-rpc.com" ELSE endpoint

\* Timeout of the http.Client NewClient builds, in seconds; 0 would mean no
\* timeout at all.
ClientTimeout == 10

\* An http.Client left without a Timeout.
TimerNeverArmed == FALSE

\* The http.Client arms a timer for each request when its Timeout is set.
TimerArmed == ClientTimeout > 0

\* The request rpcCall marshals and posts: "params" is left out when params
\* is nil.
BuildRequest(url, method, params) ==
    [verb |-> "POST", url |-> url, contentType |-> "application/json",
     body |-> [jsonrpc |-> "2.0", id |-> 1, method |-> method, params |-> params]]

NoRequest ==
    [verb |-> "none", url |-> "", contentType |-> "",
     body |-> [jsonrpc |-> "", id |-> 0, method |-> "none", params |-> Absent]]

\* json.Unmarshal(rpcResp.Result, result) for the two result containers the
\* client passes: *string and *Block.
UnmarshalResult(shape, raw) ==
    IF shape = "string" THEN UnmarshalString(raw) ELSE UnmarshalBlock(raw)

\* Only server errors refused.
StatusAcceptedBelow500(code) == code < 500

\* The status check of rpcCall.
StatusAccepted(code) == code = 200

\* The check of the envelope's error member in rpcCall.
HasRpcError(rpcResp) == ~rpcResp.Error.nil

\* rpcCall once the body is read (lines 100-117): the error it returns and
\* what it stored in the result container.
RpcCallFinish(shape, code, body) ==
    LET rpcResp == UnmarshalRpcResponse(body)
        zero    == IF shape = "string" THEN <<>> ELSE ZeroBlock
        res     == UnmarshalResult(shape, rpcResp.Result)
    IN  IF ~StatusAccepted(code) THEN [err |-> ErrStatus(code, body), result |-> zero]
        ELSE IF rpcResp.err THEN [err |-> ErrEnvelope, result |-> zero]
        ELSE IF HasRpcError(rpcResp)
          THEN [err |-> ErrRpc(rpcResp.Error.Code, rpcResp.Error.Message), result |-> zero]
        ELSE IF res.err THEN [err |-> ErrResult, result |-> res.val]
        ELSE [err |-> NoError, result |-> res.val]

\* What a public method hands back: GetBlockNumber fills num, GetBlockByNumber
\* fills block (a *Block, nil or pointing at v).
NilBlock == [nil |-> TRUE, v |-> ZeroBlock]
BlockPtr(b) == [nil |-> FALSE, v |-> b]
Returned(num, block, err) == [num |-> num, block |-> block, err |-> err]
NotReturned == [num |-> 0, block |-> NilBlock, err |-> [site |-> "pending"]]

\* GetBlockNumber after rpcCall returned (lines 124-135).
GetBlockNumberFinish(rpc) ==
    LET resultHex == rpc.result
        p         == ParseUint(Tail2(resultHex))
    IN  IF ~IsNil(rpc.err) THEN Returned(0, NilBlock, rpc.err)
        ELSE IF ~HasPrefix0x(resultHex) THEN Returned(0, NilBlock, ErrFormat(resultHex))
        ELSE IF ~p.ok THEN Returned(0, NilBlock, ErrParse(p.err))
        ELSE Returned(p.val, NilBlock, NoError)

\* The found check left out.
BlockMissingNever(block) == FALSE

\* The found check of GetBlockByNumber.
BlockMissing(block) == block.Hash = <<>>

\* GetBlockByNumber after rpcCall returned (lines 144-151).
GetBlockByNumberFinish(number, rpc) ==
    LET block == rpc.result
    IN  IF ~IsNil(rpc.err) THEN Returned(0, NilBlock, rpc.err)
        ELSE IF BlockMissing(block) THEN Returned(0, NilBlock, ErrNotFound(number))
        ELSE Returned(0, BlockPtr(block), NoError)

\* The result container each method passes to rpcCall.
Shape(o) == IF o.name = "GetBlockNumber" THEN "string" ELSE "block"

\* The method's return once rpcCall has returned rpc.
Finish(o, rpc) ==
    IF o.name = "GetBlockNumber" THEN GetBlockNumberFinish(rpc)
    ELSE GetBlockByNumberFinish(o.number, rpc)

\* rpcCall returning early with a transport failure.
RpcCallFailed(o, err) ==
    [err |-> err, result |-> IF Shape(o) = "string" THEN <<>> ELSE ZeroBlock]


\* ---------------------------------------------------------------- the node

Envelope(result, error, id) == JObj([result |-> result, error |-> error, id |-> id])
ErrorObj(code, message) == JObj([code |-> code, message |-> message])
TxObj(hash, from, to, value) ==
    JObj([hash |-> hash, from |-> from, to |-> to, value |-> value])
BlockObj(number, hash, parentHash, timestamp, transactions) ==
    JObj([number |-> number, hash |-> hash, parentHash |-> parentHash,
          timestamp |-> timestamp, transactions |-> transactions])

S0x5 == <<"0", "x", "5">>
NotFoundWords == <<"not", "found">>

\* The block the test server serves for "0x5" (its timestamp cut to the
\* model's integer width).
TestTx == TxObj(JStr(<<"0xtxhash1">>), JStr(<<"0xfromaddr">>), JStr(<<"0xtoaddr">>),
                JStr(<<"0xde0b6b3a7640000">>))
TestBlock == BlockObj(JStr(S0x5), JStr(<<"0xabcde">>), JStr(<<"0x00000">>),
                      JStr(<<"0", "x", "6", "1">>), JArr(<<TestTx>>))

\* The handler of the test server: the body it answers a request with.
TestServer(request) ==
    LET method == request.body.method
        numHex == request.body.params.a[1].s
    IN  IF method = "eth_blockNumber" THEN Envelope(JStr(S0x5), Absent, JNum(1))
        ELSE IF method = "eth_getBlockByNumber"
          THEN IF numHex = S0x5 THEN Envelope(TestBlock, Absent, JNum(1))
               ELSE Envelope(Absent,
                             ErrorObj(JNum(-32602),
                                      JStr(<<"Block">> \o numHex \o NotFoundWords)),
                             JNum(1))
        ELSE Envelope(Absent,
                      ErrorObj(JNum(-32601), JStr(<<"Method">> \o NotFoundWords)),
                      JNum(1))

\* A node that has every block: it answers eth_getBlockByNumber with a block
\* whose number is the parameter it was sent.
EchoBlocks(request) ==
    IF request.body.method = "eth_getBlockByNumber"
      THEN {Envelope(BlockObj(request.body.params.a[1], JStr(<<"0xabcde">>),
                              JStr(<<"0x00000">>), JStr(S0x5), JArr(<<>>)),
                     Absent, JNum(1))}
      ELSE {}

\* Bodies a node may answer this very request with, besides the bodies any
\* request may meet.
NodeReplies(request) == {TestServer(request)} \cup EchoBlocks(request)

\* Causes of a failing Post and of a failing read of the body.
PostCauses == {"connection refused", "no such host"}
ReadCauses == {"connection reset"}

\* ------------------------------------------------------------------- state

Calls == 1 .. NumCalls

VARIABLES
    endpoint,   \* Client.endpoint
    pc,         \* pc[c]: where call c is: idle, sending, awaiting, reading, done
    op,         \* op[c]: the method call c runs and its argument
    req,        \* req[c]: the request call c built
    posts,      \* posts[c]: how often call c invoked httpClient.Post
    resp,       \* resp[c]: status and body of the response call c received
    ret         \* ret[c]: what call c returned to its caller

vars == <<endpoint, pc, op, req, posts, resp, ret>>

NoOp == [name |-> "none", number |-> 0]
NoResponse == [status |-> 0, body |-> Absent]

\* Endpoints a client is constructed with: none, and an explicit URL.
Endpoints == {"", "http://node:8545"}

Init ==
    /\ endpoint \in {NewClient(e) : e \in Endpoints}
    /\ pc = [c \in Calls |-> "idle"]
    /\ op = [c \in Calls |-> NoOp]
    /\ req = [c \in Calls |-> NoRequest]
    /\ posts = [c \in Calls |-> 0]
    /\ resp = [c \in Calls |-> NoResponse]
    /\ ret = [c \in Calls |-> NotReturned]

\* ----------------------------------------------------------------- actions

\* GetBlockNumber enters rpcCall("eth_blockNumber", nil, &resultHex), which
\* builds and marshals the request (lines 78-89).
StartGetBlockNumber(c) ==
    /\ pc[c] = "idle"
    /\ pc' = [pc EXCEPT ![c] = "sending"]
    /\ op' = [op EXCEPT ![c] = [name |-> "GetBlockNumber", number |-> 0]]
    /\ req' = [req EXCEPT ![c] = BuildRequest(endpoint, "eth_blockNumber", Absent)]
    /\ UNCHANGED <<endpoint, posts, resp, ret>>

\* GetBlockByNumber(n) enters rpcCall("eth_getBlockByNumber", [hexNum, true],
\* &block).
StartGetBlockByNumber(c, n) ==
    /\ pc[c] = "idle"
    /\ pc' = [pc EXCEPT ![c] = "sending"]
    /\ op' = [op EXCEPT ![c] = [name |-> "GetBlockByNumber", number |-> n]]
    /\ req' = [req EXCEPT ![c] =
                 BuildRequest(endpoint, "eth_getBlockByNumber",
                              JArr(<<JStr(EncodeHex(n)), JBool(TRUE)>>))]
    /\ UNCHANGED <<endpoint, posts, resp, ret>>

\* c.httpClient.Post(c.endpoint, "application/json", ...) is invoked (line 91).
Post(c) ==
    /\ pc[c] = "sending"
    /\ pc' = [pc EXCEPT ![c] = "awaiting"]
    /\ posts' = [posts EXCEPT ![c] = @ + 1]
    /\ UNCHANGED <<endpoint, op, req, resp, ret>>

\* A failed Post tried again instead of reported.
PostFailsRetried(c, cause) ==
    /\ pc[c] = "awaiting"
    /\ pc' = [pc EXCEPT ![c] = "sending"]
    /\ UNCHANGED <<endpoint, op, req, posts, resp, ret>>

\* Post returns an error (lines 92-94); the method returns it with the zero
\* value.
PostFails(c, cause) ==
    /\ pc[c] = "awaiting"
    /\ pc' = [pc EXCEPT ![c] = "done"]
    /\ ret' = [ret EXCEPT ![c] = Finish(op[c], RpcCallFailed(op[c], ErrPost(cause)))]
    /\ UNCHANGED <<endpoint, op, req, posts, resp>>

\* Post returns a response with status code; io.ReadAll starts (line 96).
PostReturns(c, code) ==
    /\ pc[c] = "awaiting"
    /\ pc' = [pc EXCEPT ![c] = "reading"]
    /\ resp' = [resp EXCEPT ![c] = [status |-> code, body |-> Absent]]
    /\ UNCHANGED <<endpoint, op, req, posts, ret>>

\* io.ReadAll returns an error (lines 97-99).
ReadFails(c, cause) ==
    /\ pc[c] = "reading"
    /\ pc' = [pc EXCEPT ![c] = "done"]
    /\ ret' = [ret EXCEPT ![c] = Finish(op[c], RpcCallFailed(op[c], ErrRead(cause)))]
    /\ UNCHANGED <<endpoint, op, req, posts, resp>>

\* The http.Client's Timeout elapses: Post, or the read of the body, returns
\* a timeout error.
Timeout(c) ==
    /\ TimerArmed
    /\ pc[c] \in {"awaiting", "reading"}
    /\ pc' = [pc EXCEPT ![c] = "done"]
    /\ ret' = [ret EXCEPT ![c] =
                 Finish(op[c], RpcCallFailed(op[c],
                     IF pc[c] = "awaiting" THEN ErrPost("timeout") ELSE ErrRead("timeout")))]
    /\ UNCHANGED <<endpoint, op, req, posts, resp>>

\* The response kept in one buffer that all calls of the client share: a call
\* decodes the body another call received, where there is one.
ReadBodySharedBuffer(c, bodies) ==
    /\ pc[c] = "reading"
    /\ \E body \in bodies \cup NodeReplies(req[c]) :
        LET others == {d \in Calls : d # c /\ resp[d].body.t # "absent"}
            seen   == IF others = {} THEN body
                      ELSE resp[CHOOSE d \in others : TRUE].body
        IN  /\ resp' = [resp EXCEPT ![c].body = body]
            /\ ret' = [ret EXCEPT ![c] =
                         Finish(op[c], RpcCallFinish(Shape(op[c]), resp[c].status, seen))]
    /\ pc' = [pc EXCEPT ![c] = "done"]
    /\ UNCHANGED <<endpoint, op, req, posts>>

\* io.ReadAll returns a body, one of `bodies` or one the node answers this
\* request with; rpcCall checks and decodes it and the method returns (lines
\* 100-117, then 125-135 or 145-151).
ReadBody(c, bodies) ==
    /\ pc[c] = "reading"
    /\ \E body \in bodies \cup NodeReplies(req[c]) :
        /\ resp' = [resp EXCEPT ![c].body = body]
        /\ ret' = [ret EXCEPT ![c] =
                     Finish(op[c], RpcCallFinish(Shape(op[c]), resp[c].status, body))]
    /\ pc' = [pc EXCEPT ![c] = "done"]
    /\ UNCHANGED <<endpoint, op, req, posts>>

\* The caller takes the return values; the call's frame is gone.
Return(c) ==
    /\ pc[c] = "done"
    /\ pc' = [pc EXCEPT ![c] = "idle"]
    /\ op' = [op EXCEPT ![c] = NoOp]
    /\ req' = [req EXCEPT ![c] = NoRequest]
    /\ posts' = [posts EXCEPT ![c] = 0]
    /\ resp' = [resp EXCEPT ![c] = NoResponse]
    /\ ret' = [ret EXCEPT ![c] = NotReturned]
    /\ UNCHANGED endpoint


\* ------------------------------------------------------------ next-state

\* The steps of the callers in `callers`, with block numbers, status codes
\* and bodies drawn from the given sets.
NextOver(callers, numbers, codes, bodies) ==
    \E c \in callers :
        \/ StartGetBlockNumber(c)
        \/ \E n \in numbers : StartGetBlockByNumber(c, n)
        \/ Post(c)
        \/ \E cause \in PostCauses : PostFails(c, cause)
        \/ \E code \in codes : PostReturns(c, code)
        \/ \E cause \in ReadCauses : ReadFails(c, cause)
        \/ Timeout(c)
        \/ ReadBody(c, bodies)
        \/ Return(c)

\* Representative replies, for the interleavings of several callers.
EmptyHashBlock == BlockObj(JStr(S0x5), JStr(<<>>), JStr(<<"0x00000">>), JStr(S0x5), JArr(<<>>))
NotFoundError == ErrorObj(JNum(-32602), JStr(<<"Block">> \o NotFoundWords))

SampleNumbers == {5}
SampleCodes == {200, 500}
SampleBodies ==
    {Malformed,
     Envelope(JStr(S0x5), Absent, JNum(1)),
     Envelope(TestBlock, Absent, JNum(1)),
     Envelope(EmptyHashBlock, Absent, JNum(1)),
     Envelope(JNull, Absent, JNum(1)),
     Envelope(Absent, NotFoundError, JNum(1)),
     Envelope(TestBlock, NotFoundError, JNum(1))}

Next == NextOver(Calls, SampleNumbers, SampleCodes, SampleBodies)

Spec == Init /\ [][Next]_vars

\* The goroutine of a call keeps running, so it does invoke Post once the
\* request is built; and the timer of the http.Client does fire while the
\* call waits for the response or reads it. Nothing makes a node answer.
Fairness == \A c \in Calls : WF_vars(Post(c)) /\ WF_vars(Timeout(c))

LiveSpec == Init /\ [][Next]_vars /\ Fairness

\* Callers that ask for different blocks at the same time, each against a
\* node that answers with the block or the error of the number it was asked.
ConcNumbers == {5, 6}
ConcCodes == {200}
ConcBodies == {Malformed, Envelope(JStr(S0x5), Absent, JNum(1))}

ConcNext == NextOver(Calls, ConcNumbers, ConcCodes, ConcBodies)

ConcSpec == Init /\ [][ConcNext]_vars


\* --------------------------------------------- one caller, every kind of reply

\* All strings of at most k symbols of alphabet.
StringsUpTo(alphabet, k) == UNION {[1 .. m -> alphabet] : m \in 0 .. k}

HexChars == {LowerDigits[i] : i \in 1 .. 16} \cup {"A", "B", "C", "D", "E", "F"}

\* Symbols for strings that are not numbers, or not quite: digits, the prefix
\* letter, an upper-case digit, a letter that is no digit.
FreeAlphabet == {"0", "1", "f", "F", "x", "z"}

\* Hex digits that always fit the integer type.
MaxDigits == BitSize \div 4

\* Strings offered to the two decoders: free strings with and without the
\* prefix, and the prefix before every run of 1..MaxDigits hex digits.
DecoderInputs ==
    StringsUpTo(FreeAlphabet, MaxStrLen)
    \cup {<<"0", "x">> \o s : s \in StringsUpTo(FreeAlphabet, MaxStrLen)}
    \cup {<<"0", "x">> \o s : s \in StringsUpTo(HexChars, MaxDigits) \ {<<>>}}

StringResults == {JStr(s) : s \in DecoderInputs}

\* The test server's block with the string s as its number; and with every
\* string.
BlockNumbered(s) ==
    BlockObj(JStr(s), JStr(<<"0xabcde">>), JStr(<<"0x00000">>), JStr(S0x5), JArr(<<TestTx>>))

NumberBlocks == {BlockNumbered(s) : s \in DecoderInputs}

\* Blocks with each member present, missing, null, of the wrong type or
\* malformed, in every combination.
ShapeBlocks ==
    {BlockObj(n, h, p, s, x) :
        n \in {Absent, JNull, JNum(5), JStr(S0x5), JStr(<<"0", "x", "z", "z">>)},
        h \in {Absent, JNull, JNum(5), JStr(<<>>), JStr(<<"0xabcde">>)},
        p \in {Absent, JNum(5), JStr(<<"0x00000">>)},
        s \in {Absent, JStr(S0x5), JStr(<<"5">>)},
        x \in {Absent, JNull, JStr(<<"none">>), JArr(<<>>), JArr(<<TestTx>>),
               JArr(<<JNum(5)>>),
               JArr(<<TxObj(JNum(5), Absent, Absent, Absent)>>)}}

CoreResults ==
    {Absent, JNull, JNum(5), JBool(TRUE), JStr(S0x5), JStr(<<>>), JArr(<<>>),
     TestBlock, EmptyHashBlock}

ErrorMembers ==
    {Absent, JNull, JStr(<<"boom">>), NotFoundError,
     ErrorObj(JNum(-32601), JStr(<<"Method">> \o NotFoundWords)),
     ErrorObj(JNum(0), JStr(<<>>)),
     ErrorObj(Absent, Absent),
     ErrorObj(JNull, JNull),
     ErrorObj(JStr(<<"-32000">>), JStr(<<"execution", "reverted">>)),
     ErrorObj(JNum(3), JNum(4))}

IdMembers == {Absent, JNum(1), JStr(<<"1">>)}

ReplyNumbers == {5, MaxUint}
ReplyCodes == {200, 201, 302, 404, 500}
ReplyBodies ==
    {Malformed, JNull, JArr(<<>>), JStr(S0x5)}
    \cup {Envelope(r, Absent, JNum(1)) :
             r \in StringResults \cup NumberBlocks \cup ShapeBlocks}
    \cup {Envelope(r, e, i) : r \in CoreResults, e \in ErrorMembers, i \in IdMembers}

ReplyNext == NextOver({1}, ReplyNumbers, ReplyCodes, ReplyBodies)

ReplySpec == Init /\ [][ReplyNext]_vars

\* --------------------------------------------- one caller, every block number

\* Every number the integer type holds, encoded, as an eth_blockNumber result.
EncodedResults == {Envelope(JStr(EncodeHex(m)), Absent, JNum(1)) : m \in Uint}

CodecNext == NextOver({1}, Uint, {200}, EncodedResults)

CodecSpec == Init /\ [][CodecNext]_vars


\* ------------------------------------------------- vocabulary of the claims

UpperDigits == <<"0", "1", "2", "3", "4", "5", "6", "7", "8", "9",
                 "A", "B", "C", "D", "E", "F">>

IsHexDigit(ch) == \E v \in 1 .. 16 : ch = LowerDigits[v] \/ ch = UpperDigits[v]

IsLowerHexDigit(ch) == \E v \in 1 .. 16 : ch = LowerDigits[v]

HexDigitNumber(ch) == (CHOOSE v \in 1 .. 16 : ch = LowerDigits[v] \/ ch = UpperDigits[v]) - 1

\* The number a string of hex digits denotes, as positional notation defines it.
RECURSIVE HexNumber(_)
HexNumber(d) ==
    IF d = <<>> THEN 0
    ELSE 16 * HexNumber(SubSeq(d, 1, Len(d) - 1)) + HexDigitNumber(d[Len(d)])

AllHexDigits(d) == \A i \in 1 .. Len(d) : IsHexDigit(d[i])

\* s is the prefix "0x" and then a non-empty run of hex digits whose number
\* the integer type holds.
WellFormedHex(s) ==
    /\ Len(s) > 2
    /\ s[1] = "0"
    /\ s[2] = "x"
    /\ AllHexDigits(SubSeq(s, 3, Len(s)))
    /\ HexNumber(SubSeq(s, 3, Len(s))) <= MaxUint

Done(c) == pc[c] = "done"

\* Call c read a body with status 200 that is an envelope with a result
\* member, no error member and the request's id.
GotResult(c, result) ==
    /\ Done(c)
    /\ resp[c].status = 200
    /\ resp[c].body = Envelope(result, Absent, JNum(1))

Succeeded(c) == Done(c) /\ IsNil(ret[c].err)

\* Call c failed: an error, and the zero value with it.
Failed(c) == Done(c) /\ ~IsNil(ret[c].err) /\ ret[c].num = 0 /\ ret[c].block.nil

\* --------------------------------------------------------------------- C1

\* C1: round trip of the hex codec. Whatever number m the node reports as
\* EncodeHex(m), GetBlockNumber accepts it and returns m; and when the node
\* answers GetBlockByNumber(n) with a block whose number is the very
\* parameter the client sent, EncodeHex(n), Uint64Hex.UnmarshalJSON accepts
\* it and the block returned has Number = n.
C1_RoundTrip ==
    \A c \in Calls :
        /\ (Done(c) /\ op[c].name = "GetBlockNumber" /\ resp[c].status = 200) =>
              \A m \in Uint :
                  resp[c].body = Envelope(JStr(EncodeHex(m)), Absent, JNum(1)) =>
                      Succeeded(c) /\ ret[c].num = m
        /\ (Done(c) /\ op[c].name = "GetBlockByNumber" /\ resp[c].status = 200
              /\ resp[c].body \in EchoBlocks(req[c])) =>
              /\ Succeeded(c)
              /\ ~ret[c].block.nil
              /\ ret[c].block.v.Number = op[c].number

\* The largest number went out encoded and came back in the block's number.
C1_Witness ==
    \E c \in Calls :
        /\ Done(c) /\ op[c] = [name |-> "GetBlockByNumber", number |-> MaxUint]
        /\ resp[c].status = 200 /\ resp[c].body \in EchoBlocks(req[c])
        /\ Succeeded(c)
        /\ ret[c].block.v.Number = MaxUint

\* --------------------------------------------------------------------- C9

\* C9: the request of GetBlockByNumber(n) is a JSON-RPC 2.0 POST of method
\* eth_getBlockByNumber whose params are exactly two: the string "0x" +
\* the lower-case hex digits of n without a leading zero ("0x0" for zero),
\* and true. The request of GetBlockNumber is a POST of eth_blockNumber
\* without params.
C9_Request ==
    \A c \in Calls :
        pc[c] # "idle" =>
            /\ req[c].verb = "POST"
            /\ req[c].url = endpoint
            /\ req[c].contentType = "application/json"
            /\ req[c].body.jsonrpc = "2.0"
            /\ op[c].name = "GetBlockNumber" =>
                  /\ req[c].body.method = "eth_blockNumber"
                  /\ req[c].body.params = Absent
            /\ op[c].name = "GetBlockByNumber" =>
                  /\ req[c].body.method = "eth_getBlockByNumber"
                  /\ req[c].body.params.t = "array"
                  /\ Len(req[c].body.params.a) = 2
                  /\ req[c].body.params.a[2] = JBool(TRUE)
                  /\ req[c].body.params.a[1].t = "string"
                  /\ LET s == req[c].body.params.a[1].s
                         d == SubSeq(s, 3, Len(s))
                     IN  /\ Len(s) > 2 /\ s[1] = "0" /\ s[2] = "x"
                         /\ \A i \in 1 .. Len(d) : IsLowerHexDigit(d[i])
                         /\ Len(d) > 1 => d[1] # "0"
                         /\ HexNumber(d) = op[c].number

\* The request for block 0 is in flight with "0x0".
C9_Witness ==
    \E c \in Calls :
        /\ pc[c] = "awaiting"
        /\ op[c].name = "GetBlockByNumber"
        /\ op[c].number = 0
        /\ req[c].body.params.a[1].s = <<"0", "x", "0">>


\* --------------------------------------------------------------------- C2

\* C2: what the decoders accept. A string the node sends as the
\* eth_blockNumber result, or as the number of an otherwise sound block, is
\* decoded if and only if it is "0x" and then a non-empty run of hex digits
\* (either case, any length) whose number the integer type holds; it then
\* decodes to that number. Every other string (no prefix, an empty or
\* non-hex remainder, too large a number) makes the call fail with the
\* decoder's error and the zero value. Every "0x" + 1..MaxDigits hex
\* digits is among the accepted.
C2_Decode ==
    \A c \in Calls :
        (Done(c) /\ resp[c].status = 200 /\ resp[c].body.t = "object") =>
            LET result == resp[c].body.f.result
                plain  == resp[c].body = Envelope(result, Absent, JNum(1))
                str    == IF result.t = "string" THEN result.s
                          ELSE IF result.t = "object" /\ result.f.number.t = "string"
                            THEN result.f.number.s
                          ELSE <<>>
                digits == SubSeq(str, 3, Len(str))
                short  == /\ HasPrefix0x(str)
                          /\ Len(digits) \in 1 .. MaxDigits
                          /\ AllHexDigits(digits)
            IN  /\ (plain /\ op[c].name = "GetBlockNumber" /\ result.t = "string") =>
                      /\ WellFormedHex(str) => Succeeded(c) /\ ret[c].num = HexNumber(digits)
                      /\ ~WellFormedHex(str) =>
                            /\ Failed(c)
                            /\ ret[c].err.site \in {"invalid block number format",
                                                    "failed to parse block number"}
                      /\ short => Succeeded(c)
                /\ (plain /\ op[c].name = "GetBlockByNumber"
                      /\ result = BlockObj(JStr(str), JStr(<<"0xabcde">>), JStr(<<"0x00000">>),
                                           JStr(S0x5), JArr(<<TestTx>>))) =>
                      /\ WellFormedHex(str) =>
                            /\ Succeeded(c)
                            /\ ~ret[c].block.nil
                            /\ ret[c].block.v.Number = HexNumber(digits)
                      /\ ~WellFormedHex(str) =>
                            Failed(c) /\ ret[c].err.site = "failed to decode result"
                      /\ short => Succeeded(c)

\* GetBlockNumber met "0xzz" and reported the parse error.
C2_Witness ==
    \E c \in Calls :
        /\ op[c].name = "GetBlockNumber"
        /\ GotResult(c, JStr(<<"0", "x", "z", "z">>))
        /\ ret[c].err = ErrParse("syntax")


\* --------------------------------------------------------------------- C8

\* C8: a response whose status is not 2xx makes the call fail with the
\* status error, which carries the status code and the body as read, whatever
\* the body is; the zero value goes with it.
C8_NonSuccessStatus ==
    \A c \in Calls :
        (Done(c) /\ resp[c].body.t # "absent" /\ resp[c].status \notin 200 .. 299) =>
            /\ Failed(c)
            /\ ret[c].err.site = "unexpected HTTP status"
            /\ ret[c].err.status = resp[c].status
            /\ ret[c].err.body = resp[c].body

\* A 500 whose body is a sound success envelope ended as a status error.
C8_Witness ==
    \E c \in Calls :
        /\ Done(c)
        /\ resp[c].status = 500
        /\ resp[c].body = Envelope(JStr(S0x5), Absent, JNum(1))
        /\ op[c].name = "GetBlockNumber"
        /\ ret[c].err = ErrStatus(500, resp[c].body)

\* --------------------------------------------------------------------- C5

\* words occurs in text.
Contains(text, words) ==
    \E i \in 1 .. Len(text) - Len(words) + 1 :
        SubSeq(text, i, i + Len(words) - 1) = words

\* C5: a body whose envelope has an error object makes the call fail, with
\* any status and whatever else the envelope holds. When the status is 200
\* and the envelope is typed as the data model says (integer code, string
\* message, integer id if any), the error returned is the JSON-RPC error
\* with the remote code and the remote message as sent, and its text holds
\* "not found" whenever the remote message does.
C5_RemoteError ==
    \A c \in Calls :
        (Done(c) /\ resp[c].body.t = "object" /\ resp[c].body.f.error.t = "object") =>
            LET error == resp[c].body.f.error.f
                id    == resp[c].body.f.id
            IN  /\ Failed(c)
                /\ (/\ resp[c].status = 200
                    /\ id.t \in {"absent", "number"}
                    /\ error.code.t = "number"
                    /\ error.message.t = "string") =>
                      /\ ret[c].err.site = "JSON-RPC error"
                      /\ ret[c].err.code = error.code.n
                      /\ ret[c].err.message = error.message.s
                      /\ Contains(error.message.s, NotFoundWords) =>
                            Contains(ErrorText(ret[c].err), NotFoundWords)

\* GetBlockByNumber(MaxUint) met the test server's answer for a block it does
\* not have.
C5_Witness ==
    \E c \in Calls :
        /\ Done(c)
        /\ op[c] = [name |-> "GetBlockByNumber", number |-> MaxUint]
        /\ resp[c].status = 200
        /\ resp[c].body = TestServer(req[c])
        /\ ret[c].err.site = "JSON-RPC error"
        /\ ret[c].err.code = -32602
        /\ Contains(ErrorText(ret[c].err), NotFoundWords)

\* --------------------------------------------------------------------- C6

StringOrLeftOut(v) == v.t \in {"absent", "null", "string"}

\* A result that decodes, without an error, to a block whose hash is empty:
\* null, or a block object without a hash (none, null or "") whose other
\* members are sound where present.
EmptyHashResult(r) ==
    \/ r.t = "null"
    \/ /\ r.t = "object"
       /\ r.f.hash.t \in {"absent", "null"} \/ r.f.hash = JStr(<<>>)
       /\ r.f.number.t = "absent" \/ (r.f.number.t = "string" /\ WellFormedHex(r.f.number.s))
       /\ r.f.timestamp.t = "absent"
            \/ (r.f.timestamp.t = "string" /\ WellFormedHex(r.f.timestamp.s))
       /\ StringOrLeftOut(r.f.parentHash)
       /\ \/ r.f.transactions.t \in {"absent", "null"}
          \/ /\ r.f.transactions.t = "array"
             /\ \A i \in 1 .. Len(r.f.transactions.a) :
                   LET x == r.f.transactions.a[i]
                   IN  \/ x.t = "null"
                       \/ /\ x.t = "object"
                          /\ StringOrLeftOut(x.f.hash) /\ StringOrLeftOut(x.f.from)
                          /\ StringOrLeftOut(x.f.to) /\ StringOrLeftOut(x.f.value)

\* C6: GetBlockByNumber(n) that meets, with status 200 and no error member,
\* a result decoding to a block with an empty hash returns no block and the
\* not-found error naming n; and whenever GetBlockByNumber returns a nil
\* error it returns a block whose hash is not empty.
C6_EmptyHashNotFound ==
    \A c \in Calls :
        (Done(c) /\ op[c].name = "GetBlockByNumber") =>
            /\ (/\ resp[c].status = 200
                /\ resp[c].body.t = "object"
                /\ resp[c].body.f.error.t \in {"absent", "null"}
                /\ resp[c].body.f.id.t \in {"absent", "number"}
                /\ EmptyHashResult(resp[c].body.f.result)) =>
                  /\ Failed(c)
                  /\ ret[c].err.site = "block not found"
                  /\ ret[c].err.number = op[c].number
            /\ IsNil(ret[c].err) =>
                  /\ ~ret[c].block.nil
                  /\ ret[c].block.v.Hash # <<>>

\* GetBlockByNumber(5) met a null result and reported block 5 not found.
C6_Witness ==
    \E c \in Calls :
        /\ op[c] = [name |-> "GetBlockByNumber", number |-> 5]
        /\ GotResult(c, JNull)
        /\ ret[c].err = ErrNotFound(5)
        /\ ret[c].block.nil

\* --------------------------------------------------------------------- C3

\* C3: an envelope, read with status 200, in which result and error are both
\* populated, or neither is there, makes the call fail with the error of an
\* undecodable envelope or an undecodable result: never a success, never the
\* JSON-RPC error made of the remote error object.
C3_EnvelopeInvariantEnforced ==
    \A c \in Calls :
        (Done(c) /\ resp[c].status = 200 /\ resp[c].body.t = "object") =>
            LET result == resp[c].body.f.result
                error  == resp[c].body.f.error
                both    == result.t \notin {"absent", "null"} /\ error.t \notin {"absent", "null"}
                neither == result.t = "absent" /\ error.t \in {"absent", "null"}
            IN  (both \/ neither) =>
                    /\ Failed(c)
                    /\ ret[c].err.site \in {"failed to decode JSON-RPC response",
                                            "failed to decode result"}

\* --------------------------------------------------------------------- C4

HexMember(v) == v.t = "string" /\ WellFormedHex(v.s)

\* C4: GetBlockByNumber that meets a result object in which a member of Block
\* (number, hash, parentHash, timestamp, transactions) is missing, of the
\* wrong type or a malformed hex number returns an error and no block.
C4_ShapeFailureAborts ==
    \A c \in Calls :
        (Done(c) /\ op[c].name = "GetBlockByNumber" /\ resp[c].status = 200
            /\ resp[c].body.t = "object") =>
            LET r == resp[c].body.f.result
            IN  (/\ resp[c].body = Envelope(r, Absent, JNum(1))
                 /\ r.t = "object"
                 /\ \/ ~HexMember(r.f.number)
                    \/ ~HexMember(r.f.timestamp)
                    \/ r.f.hash.t # "string"
                    \/ r.f.parentHash.t # "string"
                    \/ r.f.transactions.t # "array") =>
                    Failed(c)


\* --------------------------------------------------------------------- C7

\* The states of the per-call state machine: a call is Sending while it
\* builds the request, AwaitingResponse from the invocation of Post until
\* the body is read or the transport gives up, Terminal when it has returned.
Phase(p) ==
    CASE p = "idle" -> "Idle"
      [] p = "sending" -> "Sending"
      [] p \in {"awaiting", "reading"} -> "AwaitingResponse"
      [] p = "done" -> "Terminal"

C7_OneOutcome ==
    \A c \in Calls :
        /\ posts[c] = IF pc[c] \in {"idle", "sending"} THEN 0 ELSE 1
        /\ ~Done(c) => ret[c] = NotReturned
        /\ Done(c) =>
              /\ ret[c].err.site # "pending"
              /\ IsNil(ret[c].err) \/ (ret[c].num = 0 /\ ret[c].block.nil)
              /\ op[c].name = "GetBlockNumber" => ret[c].block.nil
              /\ (op[c].name = "GetBlockByNumber" /\ IsNil(ret[c].err)) => ~ret[c].block.nil

C7_InOrder ==
    \A c \in Calls :
        /\ Phase(pc'[c]) # Phase(pc[c]) =>
              <<Phase(pc[c]), Phase(pc'[c])>> \in
                  {<<"Idle", "Sending">>, <<"Sending", "AwaitingResponse">>,
                   <<"AwaitingResponse", "Terminal">>, <<"Terminal", "Idle">>}
        /\ (Done(c) /\ pc'[c] = "done") => ret'[c] = ret[c]
        /\ pc'[c] # "idle" => posts'[c] >= posts[c]

\* C7: a call passes Idle, Sending, AwaitingResponse and a terminal state in
\* that order and no other; it has invoked Post exactly once from
\* AwaitingResponse on and never before; and what it returns, once and for
\* all, is either a nil error with a value or an error with the zero value
\* (0, a nil block).
C7_OnePass == []C7_OneOutcome /\ [][C7_InOrder]_vars

\* A call returned 5 and a nil error after its one Post.
C7_Witness ==
    \E c \in Calls :
        /\ Done(c) /\ posts[c] = 1
        /\ op[c].name = "GetBlockNumber"
        /\ IsNil(ret[c].err) /\ ret[c].num = 5

\* -------------------------------------------------------------------- C10

TransportSites == {"RPC request error", "failed to read response"}

\* C10: a call that has started does return; and a call that returns without
\* having read a body (the node did not answer, or did not finish, or the
\* transport failed) returns a transport error with the zero value.
C10_Returns ==
    /\ \A c \in Calls : (pc[c] \in {"sending", "awaiting", "reading"}) ~> Done(c)
    /\ [][\A c \in Calls :
            (~Done(c) /\ pc'[c] = "done" /\ resp'[c].body.t = "absent") =>
                /\ ret'[c].err.site \in TransportSites
                /\ ret'[c].num = 0
                /\ ret'[c].block.nil]_vars

\* A call whose node never answered ended with the timeout of Post.
C10_Witness ==
    \E c \in Calls :
        /\ Done(c)
        /\ resp[c] = NoResponse
        /\ ret[c].err = ErrPost("timeout")

\* -------------------------------------------------------------------- C11

\* All that belongs to call c.
Frame(c) == <<pc[c], op[c], req[c], posts[c], resp[c], ret[c]>>

\* The request of a method call with the given operation, on its own.
OwnRequest(o) ==
    IF o.name = "GetBlockNumber" THEN BuildRequest(endpoint, "eth_blockNumber", Absent)
    ELSE BuildRequest(endpoint, "eth_getBlockByNumber",
                      JArr(<<JStr(EncodeHex(o.number)), JBool(TRUE)>>))

\* What a call with operation o returns when it runs alone and receives r.
RunAlone(o, r) == Finish(o, RpcCallFinish(Shape(o), r.status, r.body))

C11_OwnOutcome ==
    \A c \in Calls :
        /\ pc[c] # "idle" => req[c] = OwnRequest(op[c])
        /\ Done(c) =>
              IF resp[c].body.t = "absent"
                THEN /\ ret[c].err.site \in TransportSites
                     /\ ret[c].num = 0
                     /\ ret[c].block.nil
                ELSE /\ resp[c].body \in ConcBodies \cup NodeReplies(OwnRequest(op[c]))
                     /\ ret[c] = RunAlone(op[c], resp[c])

C11_OwnFrame ==
    /\ endpoint' = endpoint
    /\ \A c, d \in Calls :
          (c # d /\ Frame(c)' # Frame(c)) => Frame(d)' = Frame(d)

\* C11: under every interleaving of simultaneous calls on one client, each
\* call sends the request of its own method and parameters and returns what
\* it would return alone for the response to that request; a step of one call
\* changes nothing that belongs to another; and the endpoint never changes.
C11_Independent == []C11_OwnOutcome /\ [][C11_OwnFrame]_vars

\* Two calls are finished at once: one was asked for block 5 and got it, the
\* other for block 6 and got the node's error for 0x6.
C11_Witness ==
    \E c, d \in Calls :
        /\ c # d /\ Done(c) /\ Done(d)
        /\ op[c] = [name |-> "GetBlockByNumber", number |-> 5]
        /\ op[d] = [name |-> "GetBlockByNumber", number |-> 6]
        /\ IsNil(ret[c].err) /\ ~ret[c].block.nil /\ ret[c].block.v.Number = 5
        /\ ret[d].err.site = "JSON-RPC error"
        /\ ret[d].err.message = <<"Block", "0", "x", "6", "not", "found">>

\* -------------------------------------------------------------------- C12

\* What each method returns, alone, to a node that sends the string s where
\* the method decodes a hex integer: as the result of eth_blockNumber, and as
\* the number of the block of eth_getBlockByNumber.
AsLatestNumber(s) ==
    RunAlone([name |-> "GetBlockNumber", number |-> 0],
             [status |-> 200, body |-> Envelope(JStr(s), Absent, JNum(1))])
AsBlockNumber(s) ==
    RunAlone([name |-> "GetBlockByNumber", number |-> 5],
             [status |-> 200, body |-> Envelope(BlockNumbered(s), Absent, JNum(1))])

\* Call c decoded the string s on the inline path of GetBlockNumber.
DecodedInline(c, s) ==
    op[c].name = "GetBlockNumber" /\ GotResult(c, JStr(s))

\* Call c decoded the string s with Uint64Hex.UnmarshalJSON, as Block.number.
DecodedAsField(c, s) ==
    op[c].name = "GetBlockByNumber" /\ GotResult(c, BlockNumbered(s))

\* The string call c received where its method decodes a hex integer, if it
\* received one (the empty string otherwise).
ReceivedString(c) ==
    LET b == resp[c].body
    IN  IF b.t # "object" THEN <<>>
        ELSE IF b.f.result.t = "string" THEN b.f.result.s
        ELSE IF b.f.result.t = "object" /\ b.f.result.f.number.t = "string"
          THEN b.f.result.f.number.s
        ELSE <<>>

\* C12: the two decoders accept the same strings and give the same number:
\* a call of GetBlockNumber that received the string s succeeds exactly when
\* GetBlockByNumber succeeds on a block numbered s, with the number that
\* block gets; and the other way round.
C12_DecodersAgree ==
    \A c \in Calls :
        LET s == ReceivedString(c)
        IN  /\ DecodedInline(c, s) =>
                  /\ IsNil(ret[c].err) <=> IsNil(AsBlockNumber(s).err)
                  /\ IsNil(ret[c].err) => ret[c].num = AsBlockNumber(s).block.v.Number
            /\ DecodedAsField(c, s) =>
                  /\ IsNil(ret[c].err) <=> IsNil(AsLatestNumber(s).err)
                  /\ IsNil(ret[c].err) => ret[c].block.v.Number = AsLatestNumber(s).num

\* GetBlockByNumber got a block numbered "0x1F" and returned it with Number
\* 31, the number GetBlockNumber makes of that string.
C12_Witness ==
    \E c \in Calls :
        /\ DecodedAsField(c, <<"0", "x", "1", "F">>)
        /\ IsNil(ret[c].err)
        /\ ret[c].block.v.Number = 31
        /\ AsLatestNumber(<<"0", "x", "1", "F">>).num = 31

\* GetBlockNumber got a string without the prefix and refused it, as the
\* decoder of Block.number does.
C12_WitnessRefused ==
    \E c \in Calls :
        /\ DecodedInline(c, <<"f">>)
        /\ ret[c].err.site = "invalid block number format"
        /\ ~IsNil(AsBlockNumber(<<"f">>).err)

=============================================================================
